---- MODULE Spec2Model ----
(***************************************************************************)
(* Pairwise distance calculators of cogent3.evolve.pairwise_distance:      *)
(* the diversity matrix, the hamming and JC69 estimators, the pairwise     *)
(* runner (_PairwiseDistance.run) with its duplicate bookkeeping, the      *)
(* expansion of duplicates (_expand), the statistic views and              *)
(* DistanceMatrix.drop_invalid.                                            *)
(*                                                                         *)
(* Numbers.  The code computes in float64.  A number is modelled as a      *)
(* triple <<tag, n, d>>:                                                   *)
(*   <<"num",  n, d>>  the rational n/d in lowest terms (d > 0)            *)
(*   <<"nlog", n, d>>  -3*log(n/d)/4 with 0 < n/d < 1, kept symbolic       *)
(*   <<"sqrt", n, d>>  sqrt(n/d) with n/d > 0 not a square, kept symbolic  *)
(*   <<"none", 0, 0>>  Python's None                                       *)
(* Names are the row indices 0..n-1 of the alignment.                      *)
(***************************************************************************)
EXTENDS Integers, Sequences, FiniteSets, TLC

\* ---------------------------------------------------------------- bounds
\* alphabet size K (self._dim); the statistics depend on the diagonal and
\* the off-diagonal mass only, so 2 states already show every case
NumStates == 2
\* an alignment has at most MaxSeqs sequences and at most MaxCells
\* characters (sequences * columns)
MaxSeqs == 4
MaxCells == 6
\* largest count in a diversity matrix handed directly to an estimator
MaxCount == 2

\* ------------------------------------------------------------- constants
\* default sentinel of get_moltype_index_array / _PairwiseDistance.__init__
invalid == -9

States == 0 .. (NumStates - 1)
Symbols == States \cup {invalid}
Coords == States \X States

None == <<"none", 0, 0>>

\* ------------------------------------------------------------ arithmetic
RECURSIVE GCD(_, _)
GCD(a, b) == IF b = 0 THEN a ELSE GCD(b, a % b)

\* the float n/d, for n >= 0 and d > 0
Num(n, d) == LET g == GCD(n, d) IN <<"num", n \div g, d \div g>>

Zero == Num(0, 1)
One == Num(1, 1)

IsNum(x) == x[1] = "num"
RatMul(x, y) == Num(x[2] * y[2], x[3] * y[3])
\* x / y; for y = 0 numpy's float64 division gives inf, written n/0
RatDiv(x, y) ==
    IF y[2] = 0 THEN <<"num", 1, 0>> ELSE Num(x[2] * y[3], x[3] * y[2])
\* x - y, for x > y; 0 when x = y
RatSub(x, y) ==
    IF x[2] * y[3] = y[2] * x[3] THEN <<"num", 0, 1>>
    ELSE Num(x[2] * y[3] - y[2] * x[3], x[3] * y[3])
RatGE(x, y) == x[2] * y[3] >= y[2] * x[3]
RatGT(x, y) == x[2] * y[3] > y[2] * x[3]

\* numpy.log as used in -3.0 * log(factor) / 4, for factor > 0
NegLog34(factor) == IF factor = One THEN Zero ELSE <<"nlog", factor[2], factor[3]>>

IsSquare(k) == \E r \in 0 .. k : r * r = k

Root(k) == CHOOSE r \in 0 .. k : r * r = k

\* numpy.sqrt of a number or of None; None has no sqrt: TypeError
SqrtFails(x) == ~IsNum(x)

sqrt(x) ==
    IF IsSquare(x[2]) /\ IsSquare(x[3])
    THEN Num(Root(x[2]), Root(x[3]))
    ELSE <<"sqrt", x[2], x[3]>>

\* sign and finiteness of a modelled number
IsFinite(x) ==
    \/ x[1] \in {"num", "sqrt"} /\ x[3] > 0
    \/ x[1] = "nlog" /\ x[2] > 0 /\ x[3] > 0
IsPositive(x) ==
    \/ x[1] = "num" /\ x[2] > 0
    \/ x[1] = "nlog" /\ x[2] < x[3]
    \/ x[1] = "sqrt" /\ x[2] > 0

\* ------------------------------------------------------ diversity matrix
ZeroMatrix == [c \in Coords |-> 0]

RECURSIVE SumOver(_, _)
SumOver(S, f) ==
    IF S = {} THEN 0
    ELSE LET c == CHOOSE x \in S : TRUE IN f[c] + SumOver(S \ {c}, f)

MatrixSum(m) == SumOver(Coords, m)
DiagSum(m) == SumOver({c \in Coords : c[1] = c[2]}, m)
off_diag == {c \in Coords : c[1] # c[2]}

\* rows of array([seq1, seq2]).T whose minimum is >= 0
Paired(seq1, seq2) ==
    SelectSeq([c \in 1 .. Len(seq1) |-> <<seq1[c], seq2[c]>>],
              LAMBDA pr : (IF pr[1] < pr[2] THEN pr[1] ELSE pr[2]) >= 0)

RECURSIVE FillFrom(_, _, _)
FillFrom(m, paired, k) ==
    IF k > Len(paired) THEN m
    ELSE FillFrom([m EXCEPT ![paired[k]] = @ + 1], paired, k + 1)

_fill_diversity_matrix(m, seq1, seq2) == FillFrom(m, Paired(seq1, seq2), 1)

\* ------------------------------------------------------------ estimators
Stats(total, p, dist, var) ==
    [length |-> total, fraction_variable |-> p, dist |-> dist, variance |-> var]

InvalidStats == Stats(None, None, None, None)

\* the proportion returned as the distance
HammingProportion(m) ==
    LET total == MatrixSum(m)
        dist == total - DiagSum(m)
    IN  IF total = 0 THEN InvalidStats
        ELSE Stats(Num(total, 1), Num(dist, total), Num(dist, total), None)

_hamming(m) ==
    LET total == MatrixSum(m)
        dist == total - DiagSum(m)
    IN  IF total = 0 THEN InvalidStats
        ELSE Stats(Num(total, 1), Num(dist, total), Num(dist, 1), None)

\* the saturation test made with > in place of >=
Jc69StrictBoundary(m) ==
    LET total == MatrixSum(m)
        diffs == total - DiagSum(m)
        p == Num(diffs, total)
        factor == RatSub(One, RatMul(Num(4, 3), p))
        var == RatDiv(RatMul(p, RatSub(One, p)),
                      RatMul(RatMul(factor, factor), Num(total, 1)))
    IN  IF total = 0 THEN InvalidStats
        ELSE IF RatGT(p, Num(3, 4)) THEN InvalidStats
        ELSE Stats(Num(total, 1), p, NegLog34(factor), var)

_jc69_from_matrix(m) ==
    LET total == MatrixSum(m)
        diffs == total - DiagSum(m)
        p == Num(diffs, total)
        factor == RatSub(One, RatMul(Num(4, 3), p))
        var == RatDiv(RatMul(p, RatSub(One, p)),
                      RatMul(RatMul(factor, factor), Num(total, 1)))
    IN  IF total = 0 THEN InvalidStats
        ELSE IF RatGE(p, Num(3, 4)) THEN InvalidStats
        ELSE Stats(Num(total, 1), p, NegLog34(factor), var)

func(est, m) == IF est = "hamming" THEN _hamming(m) ELSE _jc69_from_matrix(m)

\* ----------------------------------------------------------------- state
VARIABLES
    estimator,     \* which calculator was constructed: self.func
    names,         \* self.names, row index -> name
    indexed_seqs,  \* self.indexed_seqs, row index -> index-encoded sequence
    pc,            \* position in run: "idle", "outer", "inner", "done"; "fn"
    i, j,          \* loop indices of run
    dupes,         \* run's local set of duplicate indices
    duped,         \* run's local defaultdict(list), in insertion order
    matrix,        \* the diversity matrix buffer of run
    done,          \* run's count of comparisons displayed
    displayed,     \* what ui.display was given, in order
    estimated,     \* the pairs self.func was invoked for, in order
    result,        \* what the last estimator call returned
    _dists,        \* self._dists, (name, name) -> Stats
    _dupes,        \* self._dupes, << >> for None
    _duped,        \* self._duped, << >> for None
    view           \* the last view requested of the calculator

vars == <<estimator, names, indexed_seqs, pc, i, j, dupes, duped, matrix, done,
          displayed, estimated, result, _dists, _dupes, _duped, view>>

EmptyDict == [k \in {} |-> None]
NoResult == [func |-> "none", out |-> InvalidStats]

\* what a request returned: the kind of request, the exception it raised if
\* any, whether it returned None, the pairs of the returned matrix or table,
\* and for drop_invalid the pairs of the matrix it was applied to
View(kind, error, include_duplicates, isNone, data, source) ==
    [kind |-> kind, error |-> error, include_duplicates |-> include_duplicates,
     isNone |-> isNone, data |-> data, source |-> source]

NoView == View("none", "none", FALSE, FALSE, EmptyDict, EmptyDict)

NameCount == Cardinality(DOMAIN names)

\* the alignments: n > 1 sequences of equal length len >= 1
Shapes == {s \in (1 .. MaxSeqs) \X (1 .. MaxCells) : s[1] > 1 /\ s[1] * s[2] <= MaxCells}

\* _PairwiseDistance.__init__ with an alignment (_convert_seqs_to_indices)
Init ==
    /\ estimator \in {"hamming", "jc69"}
    /\ \E s \in Shapes :
         /\ names = [k \in 0 .. (s[1] - 1) |-> k]
         /\ indexed_seqs \in [0 .. (s[1] - 1) -> [1 .. s[2] -> Symbols]]
    /\ pc = "idle"
    /\ i = 0
    /\ j = 0
    /\ dupes = {}
    /\ duped = << >>
    /\ matrix = ZeroMatrix
    /\ done = 0
    /\ displayed = << >>
    /\ estimated = << >>
    /\ result = NoResult
    /\ _dists = EmptyDict
    /\ _dupes = << >>
    /\ _duped = << >>
    /\ view = NoView

\* --------------------------------------------------- _PairwiseDistance.run
\* to_do = (len(names) * len(names) - 1) / 2
to_do == Num(NameCount * NameCount - 1, 2)

\* run, up to the head of the loop over i
Run ==
    /\ pc = "idle"
    /\ _dupes' = << >>
    /\ _duped' = << >>
    /\ dupes' = {}
    /\ duped' = << >>
    /\ matrix' = ZeroMatrix
    /\ done' = 0
    /\ i' = 0
    /\ pc' = "outer"
    /\ UNCHANGED <<estimator, names, indexed_seqs, j, displayed, estimated,
                   result, _dists, view>>

\* for i in range(len(names) - 1): if i in dupes: continue
OuterSkip ==
    /\ pc = "outer"
    /\ i < NameCount - 1
    /\ i \in dupes
    /\ i' = i + 1
    /\ UNCHANGED <<estimator, names, indexed_seqs, pc, j, dupes, duped, matrix,
                   done, displayed, estimated, result, _dists, _dupes, _duped,
                   view>>

\* the row of a duplicate entered like any other row
OuterEnterUnchecked ==
    /\ pc = "outer"
    /\ i < NameCount - 1
    /\ j' = i + 1
    /\ pc' = "inner"
    /\ UNCHANGED <<estimator, names, indexed_seqs, i, dupes, duped, matrix,
                   done, displayed, estimated, result, _dists, _dupes, _duped,
                   view>>

OuterEnter ==
    /\ pc = "outer"
    /\ i < NameCount - 1
    /\ i \notin dupes
    /\ j' = i + 1
    /\ pc' = "inner"
    /\ UNCHANGED <<estimator, names, indexed_seqs, i, dupes, duped, matrix,
                   done, displayed, estimated, result, _dists, _dupes, _duped,
                   view>>

\* for j in range(i + 1, len(names)): if j in dupes: continue
InnerSkip ==
    /\ pc = "inner"
    /\ j < NameCount
    /\ j \in dupes
    /\ j' = j + 1
    /\ UNCHANGED <<estimator, names, indexed_seqs, pc, i, dupes, duped, matrix,
                   done, displayed, estimated, result, _dists, _dupes, _duped,
                   view>>

\* the buffer filled without being reset first
FilledNoReset(old, a, b) == _fill_diversity_matrix(old, indexed_seqs[a], indexed_seqs[b])

\* matrix.fill(0); fill_diversity_matrix(matrix, s1, s2)
Filled(old, a, b) == _fill_diversity_matrix(ZeroMatrix, indexed_seqs[a], indexed_seqs[b])

\* not (matrix[off_diag] > 0).any()
NoOffDiag(m) == ~(\E c \in off_diag : m[c] > 0)

\* ui.display('%s vs %s' % (name_1, name_2), done / to_do)
Display ==
    Append(displayed, [pair |-> <<names[i], names[j]>>, done |-> done,
                       progress |-> RatDiv(Num(done, 1), to_do)])

\* the representative recorded under the duplicate: duped[v].append(k)
DupedAppendSwapped(d, k, v) ==
    IF \E x \in 1 .. Len(d) : d[x][1] = v
    THEN [x \in 1 .. Len(d) |->
             IF d[x][1] = v THEN <<v, Append(d[x][2], k)>> ELSE d[x]]
    ELSE Append(d, <<v, <<k>>>>)

\* duped[k].append(v) on a defaultdict(list)
DupedAppend(d, k, v) ==
    IF \E x \in 1 .. Len(d) : d[x][1] = k
    THEN [x \in 1 .. Len(d) |->
             IF d[x][1] = k THEN <<k, Append(d[x][2], v)>> ELSE d[x]]
    ELSE Append(d, <<k, <<v>>>>)

\* the pair (i, j) is found to be a duplicate
InnerDuplicate ==
    /\ pc = "inner"
    /\ j < NameCount
    /\ j \notin dupes
    /\ displayed' = Display
    /\ done' = done + 1
    /\ matrix' = Filled(matrix, i, j)
    /\ NoOffDiag(matrix')
    /\ dupes' = dupes \cup {j}
    /\ duped' = DupedAppend(duped, i, j)
    /\ j' = j + 1
    /\ UNCHANGED <<estimator, names, indexed_seqs, pc, i, estimated, result,
                   _dists, _dupes, _duped, view>>

\* the result stored under one ordering of the names only
StoreOneOrdering(d, n1, n2, r) == (<<n1, n2>> :> r) @@ d

\* self._dists[(name_1, name_2)] = result; self._dists[(name_2, name_1)] = result
StoreBoth(d, n1, n2, r) == (<<n2, n1>> :> r) @@ (<<n1, n2>> :> r) @@ d

\* the estimator is invoked for the pair (i, j) and its result stored
InnerStore ==
    /\ pc = "inner"
    /\ j < NameCount
    /\ j \notin dupes
    /\ displayed' = Display
    /\ done' = done + 1
    /\ matrix' = Filled(matrix, i, j)
    /\ ~NoOffDiag(matrix')
    /\ result' = [func |-> estimator, out |-> func(estimator, matrix')]
    /\ estimated' = Append(estimated, <<i, j>>)
    /\ _dists' = StoreBoth(_dists, names[i], names[j], result'.out)
    /\ j' = j + 1
    /\ UNCHANGED <<estimator, names, indexed_seqs, pc, i, dupes, duped,
                   _dupes, _duped, view>>

\* the loop over j is exhausted
InnerExit ==
    /\ pc = "inner"
    /\ j >= NameCount
    /\ i' = i + 1
    /\ pc' = "outer"
    /\ UNCHANGED <<estimator, names, indexed_seqs, j, dupes, duped, matrix,
                   done, displayed, estimated, result, _dists, _dupes, _duped,
                   view>>

\* an ascending listing of a set of indices
RECURSIVE SetToSeq(_)
SetToSeq(S) ==
    IF S = {} THEN << >>
    ELSE LET m == CHOOSE x \in S : \A y \in S : x <= y
         IN  <<m>> \o SetToSeq(S \ {m})

\* only the keys whose first name is a duplicate removed
CleanFirstName(d, remove) ==
    [k \in {k \in DOMAIN d : k[1] \notin remove} |-> d[k]]

\* for key in keys: if set(key) & remove: del (self._dists[key])
Clean(d, remove) ==
    [k \in {k \in DOMAIN d : {k[1], k[2]} \cap remove = {}} |-> d[k]]

\* the loop over i is exhausted: lines 394-407
Finish ==
    /\ pc = "outer"
    /\ i >= NameCount - 1
    /\ _dupes' = [x \in 1 .. Cardinality(dupes) |-> names[SetToSeq(dupes)[x]]]
    /\ IF duped # << >>
       THEN /\ _duped' = [x \in 1 .. Len(duped) |->
                             <<names[duped[x][1]],
                               [y \in 1 .. Len(duped[x][2]) |-> names[duped[x][2][y]]]>>]
            /\ _dists' = Clean(_dists, {_dupes'[x] : x \in 1 .. Len(_dupes')})
       ELSE UNCHANGED <<_duped, _dists>>
    /\ pc' = "done"
    /\ UNCHANGED <<estimator, names, indexed_seqs, i, j, dupes, duped, matrix,
                   done, displayed, estimated, result, view>>

\* ------------------------------------------------- _PairwiseDistance._expand
\* redundants[r] = k for k in self.duplicated for r in self.duplicated[k]
RECURSIVE Redundants(_, _)
Redundants(d, x) ==
    IF x > Len(d) THEN << >>
    ELSE [y \in 1 .. Len(d[x][2]) |-> <<d[x][2][y], d[x][1]>>] \o Redundants(d, x + 1)

\* pwise.get(key, None)
Get(pwise, key) == IF key \in DOMAIN pwise THEN pwise[key] ELSE None

\* pwise[(add, name)] = pwise[(name, add)] = val
SetBoth(pwise, add, name, val) ==
    (<<name, add>> :> val) @@ (<<add, name>> :> val) @@ pwise

\* the representative's own pair looked up like any other pair
RECURSIVE ExpandOneNoZero(_, _, _, _)
ExpandOneNoZero(pwise, add, alias, x) ==
    IF x >= NameCount THEN pwise
    ELSE LET name == names[x]
             val == Get(pwise, <<alias, name>>)
         IN  IF name = add
             THEN ExpandOneNoZero(pwise, add, alias, x + 1)
             ELSE ExpandOneNoZero(SetBoth(pwise, add, name, val), add, alias, x + 1)

\* for name in names, from row x on
RECURSIVE ExpandOne(_, _, _, _)
ExpandOne(pwise, add, alias, x) ==
    IF x >= NameCount THEN pwise
    ELSE LET name == names[x]
             val == IF name = alias THEN Zero ELSE Get(pwise, <<alias, name>>)
         IN  IF name = add
             THEN ExpandOne(pwise, add, alias, x + 1)
             ELSE ExpandOne(SetBoth(pwise, add, name, val), add, alias, x + 1)

\* only the first item of redundants expanded
RECURSIVE ExpandFirstItem(_, _, _)
ExpandFirstItem(pwise, redundants, x) ==
    IF x > 1 \/ x > Len(redundants) THEN pwise
    ELSE ExpandFirstItem(ExpandOne(pwise, redundants[x][1], redundants[x][2], 0),
                         redundants, x + 1)

\* for add, alias in redundants.items(), from item x on
RECURSIVE ExpandAll(_, _, _)
ExpandAll(pwise, redundants, x) ==
    IF x > Len(redundants) THEN pwise
    ELSE ExpandAll(ExpandOne(pwise, redundants[x][1], redundants[x][2], 0),
                   redundants, x + 1)

_expand(pwise) ==
    IF _duped = << >> THEN pwise
    ELSE ExpandAll(pwise, Redundants(_duped, 1), 1)

\* ------------------------------------------------------------------ views
\* the matrix a DistanceMatrix holds for a dict of name pairs: its names are
\* the names of the keys, its diagonal is not part of the data
Diagonal == <<"diag", 0, 0>>

DistanceMatrix(dists) ==
    LET ns == {k[1] : k \in DOMAIN dists} \cup {k[2] : k \in DOMAIN dists}
    IN  [isNone |-> FALSE,
         names |-> ns,
         array |-> [c \in ns \X ns |->
                       IF c[1] = c[2] \/ c \notin DOMAIN dists
                       THEN Diagonal ELSE dists[c]]]

NoMatrix == [isNone |-> TRUE, names |-> {}, array |-> EmptyDict]

\* one statistic of every stored pair: {k: f(self._dists[k]) for k in self._dists}
DistOf(k) == _dists[k].dist
VarianceOf(k) == _dists[k].variance
StderrOf(k) == sqrt(_dists[k].variance)

\* get_pairwise_distances(include_duplicates)
get_pairwise_distances(include_duplicates) ==
    /\ pc = "done"
    /\ LET dists == [k \in DOMAIN _dists |-> DistOf(k)]
           full == IF include_duplicates THEN _expand(dists) ELSE dists
       IN  view' = View("distances", "none", include_duplicates, FALSE, full, EmptyDict)
    /\ UNCHANGED <<estimator, names, indexed_seqs, pc, i, j, dupes, duped,
                   matrix, done, displayed, estimated, result, _dists, _dupes,
                   _duped>>

\* _make_stat_table: rows[i, j] = rows[j, i] = stats[(names[i], names[j])], i < j
UpperPairs == {c \in (DOMAIN names) \X (DOMAIN names) : c[1] < c[2]}

TableFails(stats) == \E c \in UpperPairs : <<names[c[1]], names[c[2]]>> \notin DOMAIN stats

_make_stat_table(stats) ==
    [c \in {c \in (DOMAIN names) \X (DOMAIN names) : c[1] # c[2]} |->
        IF c[1] < c[2] THEN stats[<<names[c[1]], names[c[2]]>>]
        ELSE stats[<<names[c[2]], names[c[1]]>>]]

StatView(kind, stats) ==
    IF TableFails(stats)
    THEN View(kind, "KeyError", TRUE, FALSE, EmptyDict, EmptyDict)
    ELSE View(kind, "none", TRUE, FALSE, _make_stat_table(stats), EmptyDict)

\* the variances property
variances ==
    /\ pc = "done"
    /\ view' = StatView("variances", _expand([k \in DOMAIN _dists |-> VarianceOf(k)]))
    /\ UNCHANGED <<estimator, names, indexed_seqs, pc, i, j, dupes, duped,
                   matrix, done, displayed, estimated, result, _dists, _dupes,
                   _duped>>

\* the stderr property: sqrt(self._dists[k].variance) for every stored pair
stderr ==
    /\ pc = "done"
    /\ IF \E k \in DOMAIN _dists : SqrtFails(_dists[k].variance)
       THEN view' = View("stderr", "TypeError", TRUE, FALSE, EmptyDict, EmptyDict)
       ELSE view' = StatView("stderr", _expand([k \in DOMAIN _dists |-> StderrOf(k)]))
    /\ UNCHANGED <<estimator, names, indexed_seqs, pc, i, j, dupes, duped,
                   matrix, done, displayed, estimated, result, _dists, _dupes,
                   _duped>>

\* --------------------------------------------- DistanceMatrix.drop_invalid
ColCount(M, y, inv) == Cardinality({x \in M.names : M.array[<<x, y>>] = inv})
RowCount(M, x, inv) == Cardinality({y \in M.names : M.array[<<x, y>>] = inv})

\* only the columns searched for the invalid marker
ExcludeColumnsOnly(M, inv) == {n \in M.names : ColCount(M, n, inv) # 0}

Exclude(M, inv) ==
    {n \in M.names : ColCount(M, n, inv) # 0} \cup {n \in M.names : RowCount(M, n, inv) # 0}

drop_invalid_of(M, inv) ==
    LET keep == M.names \ Exclude(M, inv)
        dists == [c \in {c \in keep \X keep : c[1] # c[2]} |-> M.array[c]]
    IN  IF DOMAIN dists = {} THEN NoMatrix ELSE DistanceMatrix(dists)

\* the name pairs of a matrix: todict
todict(M) == [c \in {c \in DOMAIN M.array : c[1] # c[2]} |-> M.array[c]]

\* drop_invalid() of the matrix get_pairwise_distances returned
drop_invalid ==
    /\ pc = "done"
    /\ view.kind = "distances"
    /\ LET R == drop_invalid_of(DistanceMatrix(view.data), None)
       IN  view' = View("dropped", "none", view.include_duplicates, R.isNone,
                        todict(R), view.data)
    /\ UNCHANGED <<estimator, names, indexed_seqs, pc, i, j, dupes, duped,
                   matrix, done, displayed, estimated, result, _dists, _dupes,
                   _duped>>

\* build_tree() of the matrix get_pairwise_distances returned: the matrix
\* left by drop_invalid is what the tree is built from; todict takes no
\* flatten argument, so the call dists.todict(flatten=True) raises TypeError
build_tree ==
    /\ pc = "done"
    /\ view.kind = "distances"
    /\ LET R == drop_invalid_of(DistanceMatrix(view.data), None)
       IN  view' = View("tree",
                        IF R.isNone \/ Cardinality(R.names) = 1
                        THEN "ValueError" ELSE "TypeError",
                        view.include_duplicates, R.isNone, todict(R), view.data)
    /\ UNCHANGED <<estimator, names, indexed_seqs, pc, i, j, dupes, duped,
                   matrix, done, displayed, estimated, result, _dists, _dupes,
                   _duped>>

Next ==
    \/ Run
    \/ OuterSkip
    \/ OuterEnter
    \/ InnerSkip
    \/ InnerDuplicate
    \/ InnerStore
    \/ InnerExit
    \/ Finish
    \/ \E b \in BOOLEAN : get_pairwise_distances(b)
    \/ variances
    \/ stderr
    \/ drop_invalid
    \/ build_tree

Spec == Init /\ [][Next]_vars

\* ----------------------------------------- the estimators as pure functions
\* a diversity matrix handed directly to an estimator
InitFn ==
    /\ matrix \in [Coords -> 0 .. MaxCount]
    /\ pc = "fn"
    /\ estimator = "none"
    /\ names = EmptyDict
    /\ indexed_seqs = EmptyDict
    /\ i = 0
    /\ j = 0
    /\ dupes = {}
    /\ duped = << >>
    /\ done = 0
    /\ displayed = << >>
    /\ estimated = << >>
    /\ result = NoResult
    /\ _dists = EmptyDict
    /\ _dupes = << >>
    /\ _duped = << >>
    /\ view = NoView

CallHamming ==
    /\ pc = "fn"
    /\ result' = [func |-> "hamming", out |-> _hamming(matrix)]
    /\ UNCHANGED <<estimator, names, indexed_seqs, pc, i, j, dupes, duped,
                   matrix, done, displayed, estimated, _dists, _dupes, _duped,
                   view>>

CallJC69 ==
    /\ pc = "fn"
    /\ result' = [func |-> "jc69", out |-> _jc69_from_matrix(matrix)]
    /\ UNCHANGED <<estimator, names, indexed_seqs, pc, i, j, dupes, duped,
                   matrix, done, displayed, estimated, _dists, _dupes, _duped,
                   view>>

NextFn == CallHamming \/ CallJC69

SpecFn == InitFn /\ [][NextFn]_vars

\* --------------------------------- drop_invalid on any square distance matrix
\* largest number of names of a matrix built directly from a dict of pairs
MaxNames == 4
\* largest number of its cells that hold the invalid marker
MaxInvalid == 2

RECURSIVE SubsetsUpTo(_, _)
SubsetsUpTo(S, k) ==
    IF k = 0 THEN {{}}
    ELSE SubsetsUpTo(S, k - 1) \cup
         {T \cup {x} : T \in SubsetsUpTo(S, k - 1), x \in S}

\* DistanceMatrix(dists) for a dict given by the caller: every ordered pair of
\* 2..MaxNames names has a value of its own, or the invalid marker
InitDrop ==
    /\ \E m \in 2 .. MaxNames :
         LET pairs == {c \in (0 .. (m - 1)) \X (0 .. (m - 1)) : c[1] # c[2]}
         IN  \E bad \in SubsetsUpTo(pairs, MaxInvalid) :
               view = View("distances", "none", TRUE, FALSE,
                           [c \in pairs |-> IF c \in bad THEN None
                                            ELSE Num(c[1] * m + c[2], 1)],
                           EmptyDict)
    /\ pc = "done"
    /\ estimator = "none"
    /\ names = EmptyDict
    /\ indexed_seqs = EmptyDict
    /\ i = 0
    /\ j = 0
    /\ dupes = {}
    /\ duped = << >>
    /\ matrix = ZeroMatrix
    /\ done = 0
    /\ displayed = << >>
    /\ estimated = << >>
    /\ result = NoResult
    /\ _dists = EmptyDict
    /\ _dupes = << >>
    /\ _duped = << >>

NextDrop == drop_invalid \/ build_tree

SpecDrop == InitDrop /\ [][NextDrop]_vars

\* ================================================================ claims
NameSet == {names[k] : k \in DOMAIN names}
NamePairs == {c \in NameSet \X NameSet : c[1] # c[2]}
Mirror(k) == <<k[2], k[1]>>

SymmetricDict(d) ==
    \A k \in DOMAIN d : k[1] # k[2] => Mirror(k) \in DOMAIN d /\ d[Mirror(k)] = d[k]

\* the names recorded as duplicates, and the representative -> duplicate pairs
DupeNames == {_dupes[x] : x \in 1 .. Len(_dupes)}
RecordedDupes ==
    UNION {{<<_duped[x][1], _duped[x][2][y]>> : y \in 1 .. Len(_duped[x][2])} :
           x \in 1 .. Len(_duped)}

\* C1: the sparse store holds every entry under both orderings of its names
\* with the same statistics, and the distance matrix get_pairwise_distances
\* returns, with or without the duplicates, is symmetric.
C1_Symmetric ==
    /\ SymmetricDict(_dists)
    /\ view.kind = "distances" => SymmetricDict(view.data)

C1_Witness ==
    /\ view.kind = "distances"
    /\ view.include_duplicates
    /\ _duped # << >>
    /\ \E k \in DOMAIN _dists : _dists[k].dist # None

\* C2: in the matrix with the duplicates included, a duplicate B of the
\* representative A is at distance 0 from A and at the same distance as A
\* from every other name C.
C2_DuplicateRows ==
    view.kind = "distances" /\ view.include_duplicates =>
        \A r \in RecordedDupes :
            /\ <<r[1], r[2]>> \in DOMAIN view.data
            /\ view.data[<<r[1], r[2]>>] = Zero
            /\ \A C \in NameSet \ {r[1], r[2]} :
                  /\ <<r[2], C>> \in DOMAIN view.data
                  /\ <<r[1], C>> \in DOMAIN view.data
                  /\ view.data[<<r[2], C>>] = view.data[<<r[1], C>>]

\* two representatives with a duplicate each, a nonzero distance apart
C2_Witness ==
    /\ view.kind = "distances"
    /\ view.include_duplicates
    /\ \E r \in RecordedDupes, q \in RecordedDupes :
          /\ r[1] # q[1]
          /\ view.data[<<r[2], q[2]>>] # Zero

\* C3: for N >= 2 names the matrix with the duplicates included has an entry
\* for every ordered pair of distinct names, however many duplicates were
\* found, and no pair is missing when a table is assembled.
C3_AllPairs ==
    /\ view.kind = "distances" /\ view.include_duplicates /\ NameCount >= 2 =>
          DOMAIN view.data = NamePairs
    /\ view.kind \in {"variances", "stderr"} => view.error # "KeyError"

\* every sequence is a duplicate of the first
C3_Witness ==
    /\ view.kind = "distances"
    /\ view.include_duplicates
    /\ NameCount >= 3
    /\ Len(_duped) = 1
    /\ Len(_duped[1][2]) = NameCount - 1
    /\ DOMAIN view.data = NamePairs

\* C10: after run the sparse store holds exactly the ordered pairs of
\* distinct names that are not recorded as duplicates.
C10_StoreKeys ==
    pc = "done" =>
        DOMAIN _dists = {c \in NamePairs : c[1] \notin DupeNames /\ c[2] \notin DupeNames}

\* a pair was estimated in an earlier row for a name found a duplicate later
C10_Witness ==
    /\ pc = "done"
    /\ DOMAIN _dists # {}
    /\ \E x \in 1 .. Len(estimated) : names[estimated[x][2]] \in DupeNames

\* the row of a name
RowOf(n) == CHOOSE k \in DOMAIN names : names[k] = n

\* the columns where both sequences hold a state
JointlyValid(a, b) ==
    {c \in DOMAIN indexed_seqs[a] :
        indexed_seqs[a][c] # invalid /\ indexed_seqs[b][c] # invalid}

\* C9: the matrix handed to the duplicate test and to the estimator for the
\* pair just compared counts, at (a, b), the columns where the first sequence
\* has state a and the second state b; its sum is the number of jointly valid
\* columns; nothing of an earlier pair is left in the buffer.
C9_DiversityMatrix ==
    pc \in {"outer", "inner", "done"} /\ displayed # << >> =>
        LET pr == displayed[Len(displayed)].pair
            a == RowOf(pr[1])
            b == RowOf(pr[2])
        IN  /\ \A c \in Coords :
                 matrix[c] = Cardinality({col \in DOMAIN indexed_seqs[a] :
                                 indexed_seqs[a][col] = c[1] /\ indexed_seqs[b][col] = c[2]})
            /\ MatrixSum(matrix) = Cardinality(JointlyValid(a, b))

\* a second pair compared after a pair that left counts in the buffer
C9_Witness ==
    /\ Len(displayed) >= 2
    /\ MatrixSum(matrix) > 0
    /\ MatrixSum(matrix) < Cardinality(DOMAIN indexed_seqs[0])
    /\ LET pv == displayed[Len(displayed) - 1].pair
       IN  JointlyValid(RowOf(pv[1]), RowOf(pv[2])) # {}

OffDiagSum(m) == SumOver(off_diag, m)

\* C5 as stated: for total > 0 hamming returns dist = (total - trace)/total,
\* equal to the proportion and within [0, 1]; the variance is undefined.
C5_DistIsProportion ==
    result.func = "hamming" /\ MatrixSum(matrix) > 0 =>
        /\ result.out.dist = Num(OffDiagSum(matrix), MatrixSum(matrix))
        /\ result.out.dist = result.out.fraction_variable
        /\ RatGE(One, result.out.dist)
        /\ result.out.variance = None

\* C5 amended: for total > 0 hamming returns dist = total - trace, the number
\* of variable sites, with 0 <= dist <= total, and proportion = dist/total
\* within [0, 1]; the variance is undefined.
C5_DistIsCount ==
    result.func = "hamming" /\ MatrixSum(matrix) > 0 =>
        /\ result.out.length = Num(MatrixSum(matrix), 1)
        /\ result.out.dist = Num(OffDiagSum(matrix), 1)
        /\ RatGE(result.out.length, result.out.dist)
        /\ result.out.fraction_variable = RatDiv(result.out.dist, result.out.length)
        /\ RatGE(One, result.out.fraction_variable)
        /\ RatGE(result.out.fraction_variable, Zero)
        /\ result.out.variance = None

\* more than one variable site, so that the count is not a proportion
C5_Witness ==
    /\ result.func = "hamming"
    /\ MatrixSum(matrix) > 0
    /\ result.out.dist = Num(2, 1)
    /\ result.out.fraction_variable = Num(1, 2)

Jc69Boundary ==
    /\ MatrixSum(matrix) = 0 => result.out = InvalidStats
    /\ MatrixSum(matrix) > 0 /\ 4 * OffDiagSum(matrix) >= 3 * MatrixSum(matrix) =>
          result.out = InvalidStats

\* C6 as stated: JC69 returns the invalid tuple when total = 0 or
\* p = (total - trace)/total >= 0.75, and a finite positive distance when
\* p < 0.75.
C6_PositiveBelowBoundary ==
    result.func = "jc69" =>
        /\ Jc69Boundary
        /\ MatrixSum(matrix) > 0 /\ 4 * OffDiagSum(matrix) < 3 * MatrixSum(matrix) =>
              /\ result.out # InvalidStats
              /\ IsFinite(result.out.dist)
              /\ IsPositive(result.out.dist)

\* C6 amended: JC69 returns the invalid tuple when total = 0 or p >= 0.75,
\* and when p < 0.75 a finite distance that is positive if p > 0 and is 0 if
\* p = 0.
C6_NonNegativeBelowBoundary ==
    result.func = "jc69" =>
        /\ Jc69Boundary
        /\ MatrixSum(matrix) > 0 /\ 4 * OffDiagSum(matrix) < 3 * MatrixSum(matrix) =>
              /\ result.out # InvalidStats
              /\ IsFinite(result.out.dist)
              /\ OffDiagSum(matrix) > 0 => IsPositive(result.out.dist)
              /\ OffDiagSum(matrix) = 0 => result.out.dist = Zero

\* a matrix exactly on the boundary p = 3/4, found invalid
C6_Witness ==
    /\ result.func = "jc69"
    /\ MatrixSum(matrix) = 4
    /\ OffDiagSum(matrix) = 3
    /\ result.out = InvalidStats

\* C4 as stated: two sequences without a jointly valid column get the
\* invalid marker None as their distance.
C4_ZeroSitesInvalid ==
    view.kind = "distances" /\ view.include_duplicates =>
        \A c \in NamePairs :
            JointlyValid(RowOf(c[1]), RowOf(c[2])) = {} =>
                c \in DOMAIN view.data /\ view.data[c] = None

\* C7 as stated: the variance and standard error views can always be
\* requested; a pair whose variance is None has None in its cell, every
\* other stored pair its variance, or the square root of it.
C7_ViewsPropagateInvalid ==
    view.kind \in {"variances", "stderr"} =>
        /\ view.error = "none"
        /\ \A k \in DOMAIN _dists :
              LET var == _dists[k].variance
                  cell == view.data[<<RowOf(k[1]), RowOf(k[2])>>]
              IN  IF var = None THEN cell = None
                  ELSE cell = (IF view.kind = "stderr" THEN sqrt(var) ELSE var)

\* the names and pairs drop_invalid has to keep of a dict of name pairs
KeyNames(d) == {k[1] : k \in DOMAIN d} \cup {k[2] : k \in DOMAIN d}
Marked(d) == {n \in KeyNames(d) : \E k \in DOMAIN d : n \in {k[1], k[2]} /\ d[k] = None}
Survivors(d) == KeyNames(d) \ Marked(d)
SurvivingPairs(d) == {c \in Survivors(d) \X Survivors(d) : c[1] # c[2]}

\* C8: drop_invalid returns the matrix over exactly the names without an
\* invalid marker in their row or column, every kept pair with its value and
\* none of them invalid, and None when no pair is left; build_tree builds
\* from that matrix.
C8_DropInvalid ==
    view.kind \in {"dropped", "tree"} =>
        IF SurvivingPairs(view.source) = {}
        THEN view.isNone /\ DOMAIN view.data = {}
        ELSE /\ ~view.isNone
             /\ DOMAIN view.data = SurvivingPairs(view.source)
             /\ \A k \in DOMAIN view.data :
                   view.data[k] = view.source[k] /\ view.data[k] # None

\* a matrix with an invalid pair of which other names are left
C8_Witness ==
    /\ view.kind = "dropped"
    /\ ~view.isNone
    /\ Marked(view.source) # {}
    /\ DOMAIN view.data # {}
    /\ \E k \in DOMAIN view.source : k \notin DOMAIN view.data /\ view.source[k] # None

\* the diversity matrix of rows a and b has no off-diagonal mass: the two
\* sequences hold the same state in every jointly valid column
SameWhereValid(a, b) ==
    \A c \in JointlyValid(a, b) : indexed_seqs[a][c] = indexed_seqs[b][c]

\* the places of a name in the lists of the duplicate mapping
ListedAt(d) ==
    {p \in (1 .. Len(_duped)) \X (1 .. NameCount) :
        p[2] <= Len(_duped[p[1]][2]) /\ _duped[p[1]][2][p[2]] = d}

\* C11: after run every duplicate name is listed under exactly one
\* representative and only duplicates are listed, no representative is a
\* duplicate, a representative comes before each of its duplicates, and it
\* is the first sequence that is not a duplicate and whose diversity matrix
\* against the duplicate has no off-diagonal mass.
C11_DuplicatePartition ==
    pc = "done" =>
        /\ \A d \in DupeNames : Cardinality(ListedAt(d)) = 1
        /\ \A r \in RecordedDupes : r[2] \in DupeNames
        /\ \A x \in 1 .. Len(_duped), y \in 1 .. Len(_duped) :
              _duped[x][1] = _duped[y][1] => x = y
        /\ \A x \in 1 .. Len(_duped) :
              _duped[x][1] \in NameSet \ DupeNames /\ _duped[x][2] # << >>
        /\ \A r \in RecordedDupes :
              /\ RowOf(r[1]) < RowOf(r[2])
              /\ SameWhereValid(RowOf(r[1]), RowOf(r[2]))
              /\ \A n \in NameSet \ DupeNames :
                    SameWhereValid(RowOf(n), RowOf(r[2])) => RowOf(r[1]) <= RowOf(n)

\* a duplicate whose representative is not the first sequence, and which an
\* earlier duplicate of another representative matches as well
C11_Witness ==
    /\ pc = "done"
    /\ \E r \in RecordedDupes, e \in DupeNames :
          /\ RowOf(e) < RowOf(r[1])
          /\ SameWhereValid(RowOf(e), RowOf(r[2]))

\* the pairs compared so far, as rows, and those the estimator was invoked for
ComparedAt(x) == <<RowOf(displayed[x].pair[1]), RowOf(displayed[x].pair[2])>>
EstimatedPairs == {estimated[x] : x \in 1 .. Len(estimated)}
\* the comparison at x found a duplicate
FoundDuplicate(x) == ComparedAt(x) \notin EstimatedPairs
RowMajorBefore(p, q) == p[1] < q[1] \/ (p[1] = q[1] /\ p[2] < q[2])

C12_State ==
    /\ \A x \in 1 .. Len(displayed) :
          /\ 0 <= ComparedAt(x)[1]
          /\ ComparedAt(x)[1] < ComparedAt(x)[2]
          /\ ComparedAt(x)[2] < NameCount
          /\ FoundDuplicate(x) <=> SameWhereValid(ComparedAt(x)[1], ComparedAt(x)[2])
    /\ \A x \in 1 .. Len(displayed), y \in 1 .. Len(displayed) :
          x < y =>
              /\ RowMajorBefore(ComparedAt(x), ComparedAt(y))
              /\ FoundDuplicate(x) =>
                    ComparedAt(x)[2] \notin {ComparedAt(y)[1], ComparedAt(y)[2]}
    /\ pc \in {"outer", "inner", "done"} =>
          dupes = {ComparedAt(x)[2] : x \in {y \in 1 .. Len(displayed) : FoundDuplicate(y)}}
    /\ \A x \in 1 .. Len(estimated), y \in 1 .. Len(estimated) :
          x < y => RowMajorBefore(estimated[x], estimated[y])
    /\ EstimatedPairs \subseteq {ComparedAt(x) : x \in 1 .. Len(displayed)}
    /\ pc = "done" =>
          \A c \in UpperPairs :
              (c \in {ComparedAt(x) : x \in 1 .. Len(displayed)})
                  <=> ~(\E x \in 1 .. Len(displayed) :
                           /\ FoundDuplicate(x)
                           /\ RowMajorBefore(ComparedAt(x), c)
                           /\ ComparedAt(x)[2] \in {c[1], c[2]})

C12_Step ==
    /\ dupes \subseteq dupes'
    /\ displayed' # displayed =>
          /\ i \notin dupes
          /\ j \notin dupes
          /\ displayed' = Append(displayed, displayed'[Len(displayed')])
          /\ displayed'[Len(displayed')].pair = <<names[i], names[j]>>
          /\ matrix' = _fill_diversity_matrix(ZeroMatrix, indexed_seqs[i], indexed_seqs[j])
    /\ displayed' = displayed => matrix' = matrix \/ pc = "idle"
    /\ estimated' # estimated =>
          /\ estimated' = Append(estimated, <<i, j>>)
          /\ displayed' # displayed
          /\ dupes' = dupes
    /\ dupes' # dupes => dupes' = dupes \cup {j} /\ estimated' = estimated

\* C12: run compares the pairs (i, j), i < j, in row-major order; an index
\* once marked a duplicate stays marked, and from then on no pair with that
\* index on either side is compared: no matrix is built, no duplicate test
\* made and no estimator invoked for it; the estimator is invoked for exactly
\* the compared pairs that were not found to be duplicates.
C12_RowMajorSkipping == [](C12_State) /\ [][C12_Step]_vars

\* a duplicate whose column was skipped in a later row and whose own row was
\* skipped, with the estimator invoked after it was marked
C12_Witness ==
    /\ pc = "done"
    /\ \E x \in 1 .. Len(displayed), y \in 1 .. Len(displayed), z \in 1 .. Len(displayed) :
          /\ x < y
          /\ x < z
          /\ FoundDuplicate(x)
          /\ ~FoundDuplicate(z)
          /\ ComparedAt(x)[1] < ComparedAt(y)[1]
          /\ ComparedAt(y)[1] < ComparedAt(x)[2]
          /\ ComparedAt(x)[2] < ComparedAt(y)[2]
          /\ ComparedAt(x)[2] < NameCount - 1

\* the number of pairs of N names: N(N-1)/2
PairCount == Num(NameCount * (NameCount - 1), 2)

\* C13 as stated: the progress reported at a comparison is the number of
\* comparisons already made divided by N(N-1)/2; the values reported do not
\* decrease and lie within [0, 1]; the pairs compared and their order are
\* those of the row-major pass.
C13_ProgressFraction ==
    /\ \A x \in 1 .. Len(displayed) :
          /\ displayed[x].done = x - 1
          /\ displayed[x].progress = RatDiv(Num(x - 1, 1), PairCount)
          /\ RatGE(displayed[x].progress, Zero)
          /\ RatGE(One, displayed[x].progress)
    /\ \A x \in 1 .. Len(displayed), y \in 1 .. Len(displayed) :
          x < y =>
              /\ RatGE(displayed[y].progress, displayed[x].progress)
              /\ RowMajorBefore(ComparedAt(x), ComparedAt(y))

====
